---- MODULE Spec2Model ----
(***************************************************************************)
(* Model of the quote read path of src/server.js: the layered cache, the   *)
(* per-symbol registry activeRequests, the bounded requestQueue, the       *)
(* single worker processQueue with its per-minute counter, and the         *)
(* /api/stock/:symbol handler with its four layers.                        *)
(*                                                                         *)
(* Time is discrete.  All durations of the source are scaled to small      *)
(* integers that keep their order                                          *)
(*   REQUEST_INTERVAL <= axios timeout < caller timeout < window           *)
(*                    < CACHE_DURATION < STALE_CACHE_DURATION.             *)
(* A timer never fires before it is due and may fire up to MaxLate units   *)
(* after it (setTimeout / setInterval give no upper bound).                *)
(***************************************************************************)
EXTENDS Integers, Sequences, FiniteSets, TLC

\* ---- bounds of the model ------------------------------------------------
MaxRequests == 3
MaxTime == 6
MaxLate == 1

\* ---- program constants (scaled) -----------------------------------------
CACHE_DURATION == 4
STALE_CACHE_DURATION == 5
MAX_REQUESTS_PER_MINUTE == 2
WINDOW_MS == 3
AXIOS_TIMEOUT == 1
CALLER_TIMEOUT == 2

REQUEST_INTERVAL == WINDOW_MS \div MAX_REQUESTS_PER_MINUTE

Symbols == {"AAPL", "TSLA"}
\* data.c of an upstream response: 0 stands for a missing or zero price
UpstreamPrices == {0, 1}
RequestIds == 1..MaxRequests
\* the capacities of requestQueue the model is run with
QueueSizes == {1, 2}

VARIABLES
    now,               \* Date.now()
    apiKey,            \* process.env.FINNHUB_API_KEY is set
    maxQueueSize,      \* the configured capacity of requestQueue
    cache,             \* Map symbol -> { data, timestamp }
    requestQueue,      \* array of { symbol, resolve, reject }
    activeRequests,    \* Map symbol -> { resolve, reject } (0: no key)
    isProcessingQueue,
    requestCount,
    lastResetTime,
    intervalDue,       \* next due time of the setInterval timer
    worker,            \* where processQueue is suspended
    req,               \* the /api/stock handler invocations
    calls,             \* history: upstream calls started, in order, and how each ended
    lastKind           \* history: layer that answered the latest response per symbol

vars == <<now, apiKey, maxQueueSize, cache, requestQueue, activeRequests, isProcessingQueue,
          requestCount, lastResetTime, intervalDue, worker, req, calls, lastKind>>

\* const MAX_QUEUE_SIZE: fixed when the server starts
MAX_QUEUE_SIZE == maxQueueSize

\* ---- quotes and cache entries -------------------------------------------
\* Number.prototype.toFixed(2) on the prices of the model
toFixed2(c) == CASE c = 0 -> "0.00" [] c = 1 -> "1.00" [] c = 2 -> "2.00" [] OTHER -> "NaN"

NoData == [symbol |-> "", price |-> "", mock |-> FALSE]
NoEntry == [present |-> FALSE, data |-> NoData, timestamp |-> 0]

stockData(symbol, c) == [symbol |-> symbol, price |-> toFixed2(c), mock |-> FALSE]
mockData(symbol) == [symbol |-> symbol, price |-> "N/A", mock |-> TRUE]

\* LAYER 1 test with the subtraction reversed
IsFresh_Reversed(cached, t) == cached.present /\ cached.timestamp - t > CACHE_DURATION
\* LAYER 1 test
IsFresh(cached, t) == cached.present /\ t - cached.timestamp < CACHE_DURATION
\* LAYER 3 test with <= for <
IsServableStale_Inclusive(cached, t) ==
    cached.present /\ t - cached.timestamp <= STALE_CACHE_DURATION
\* LAYER 3 test
IsServableStale(cached, t) == cached.present /\ t - cached.timestamp < STALE_CACHE_DURATION

\* ---- the handler's continuations ----------------------------------------
\* The mutable program state is threaded through the synchronous code as a
\* record M: cache, q (requestQueue), active (activeRequests), proc
\* (isProcessingQueue), count (requestCount), last (lastResetTime), worker,
\* req, calls, lastKind.

NoQEntry == [symbol |-> "", owner |-> 0]
IdleWorker == [pc |-> "idle", wake |-> 0, entry |-> NoQEntry]

NoRequest ==
    [symbol |-> "", pc |-> "none", role |-> "none", cached |-> NoEntry,
     handle |-> 0, startedAt |-> 0, timeoutAt |-> 0, status |-> 0, kind |-> "none",
     cause |-> "none", body |-> NoData]

\* res.status(status).json(body): the handler returns
Respond(M, r, status, kind, cause, body) ==
    [M EXCEPT !.req[r] = [@ EXCEPT !.pc = "done", !.cached = NoEntry,
                                   !.startedAt = 0, !.timeoutAt = 0,
                                   !.status = status, !.kind = kind,
                                   !.cause = cause, !.body = body],
              !.lastKind[M.req[r].symbol] = kind]

\* the fallback letting the error through when no stale entry can be served
Fallback_Propagates(M, r, cause, t) ==
    LET cached == M.req[r].cached
    IN  IF IsServableStale(cached, t)
        THEN Respond(M, r, 200, "stale", cause, cached.data)
        ELSE Respond(M, r, 500, "error", cause, NoData)

\* the fallback writing the placeholder into the cache
Fallback_CachesMock(M, r, cause, t) ==
    LET cached == M.req[r].cached
        symbol == M.req[r].symbol
    IN  IF IsServableStale(cached, t)
        THEN Respond(M, r, 200, "stale", cause, cached.data)
        ELSE Respond([M EXCEPT !.cache[symbol] =
                         [present |-> TRUE, data |-> mockData(symbol), timestamp |-> t]],
                     r, 200, "mock", cause, mockData(symbol))

\* LAYER 3 and LAYER 4, entered after the live fetch failed
Fallback(M, r, cause, t) ==
    LET cached == M.req[r].cached
        symbol == M.req[r].symbol
    IN  IF IsServableStale(cached, t)
        THEN Respond(M, r, 200, "stale", cause, cached.data)
        ELSE Respond(M, r, 200, "mock", cause, mockData(symbol))

\* LAYER 2 without the test of data.c: a zero price is formatted and cached
Deliver_AcceptsZero(M, r, c, t) ==
    LET symbol == M.req[r].symbol
        quote == stockData(symbol, c)
    IN  Respond([M EXCEPT !.cache[symbol] =
                    [present |-> TRUE, data |-> quote, timestamp |-> t]],
                r, 200, "live", "none", quote)

\* LAYER 2 after `await queueApiRequest` returned data with data.c = c
Deliver(M, r, c, t) ==
    LET symbol == M.req[r].symbol
        quote == stockData(symbol, c)
    IN  IF c # 0
        THEN Respond([M EXCEPT !.cache[symbol] =
                         [present |-> TRUE, data |-> quote, timestamp |-> t]],
                     r, 200, "live", "none", quote)
        ELSE Fallback(M, r, "zeroPrice", t)

\* wrappedResolve(data): the promise is settled at most once, so a caller
\* whose own timer already rejected it is not resumed again
wrappedResolve(M, e, c, t) ==
    LET M1 == [M EXCEPT !.active[e.symbol] = 0]
    IN  IF M.req[e.owner].pc = "queued" THEN Deliver(M1, e.owner, c, t) ELSE M1

\* wrappedReject without activeRequests.delete(symbol)
wrappedReject_KeepsHandle(M, e, cause, t) ==
    IF M.req[e.owner].pc = "queued" THEN Fallback(M, e.owner, cause, t) ELSE M

\* wrappedReject(error)
wrappedReject(M, e, cause, t) ==
    LET M1 == [M EXCEPT !.active[e.symbol] = 0]
    IN  IF M.req[e.owner].pc = "queued" THEN Fallback(M1, e.owner, cause, t) ELSE M1

\* ---- processQueue -------------------------------------------------------
waitTime(M, t) == WINDOW_MS - (t - M.last)

RECURSIVE whileLoop(_, _)
\* the worker taking the newest entry instead of the oldest
shiftAndCall_Lifo(M, t) ==
    LET e == M.q[Len(M.q)]
        M1 == [M EXCEPT !.q = SubSeq(M.q, 1, Len(M.q) - 1)]
    IN  IF ~apiKey
        THEN whileLoop(wrappedReject(M1, e, "noApiKey", t), t)
        ELSE [M1 EXCEPT !.worker = [pc |-> "axios", wake |-> t, entry |-> e],
                        !.calls = Append(@, [symbol |-> e.symbol, owner |-> e.owner, at |-> t,
                                             outcome |-> "pending"])]

\* lines 55-66: shift the head; without an API key reject and `continue`,
\* otherwise start axios.get and suspend on it
shiftAndCall(M, t) ==
    LET e == Head(M.q)
        M1 == [M EXCEPT !.q = Tail(M.q)]
    IN  IF ~apiKey
        THEN whileLoop(wrappedReject(M1, e, "noApiKey", t), t)
        ELSE [M1 EXCEPT !.worker = [pc |-> "axios", wake |-> t, entry |-> e],
                        !.calls = Append(@, [symbol |-> e.symbol, owner |-> e.owner, at |-> t,
                                             outcome |-> "pending"])]

\* the loop leaving without clearing isProcessingQueue
whileLoop_KeepsFlag(M, t) ==
    IF M.q = <<>>
    THEN [M EXCEPT !.worker = IdleWorker]
    ELSE IF M.count >= MAX_REQUESTS_PER_MINUTE /\ waitTime(M, t) > 0
         THEN [M EXCEPT !.worker = [pc |-> "rateWait", wake |-> t + waitTime(M, t),
                                    entry |-> NoQEntry]]
         ELSE shiftAndCall(M, t)

\* lines 43-81: one pass from the loop test to the next await (or the exit)
whileLoop(M, t) ==
    IF M.q = <<>>
    THEN [M EXCEPT !.proc = FALSE, !.worker = IdleWorker]
    ELSE IF M.count >= MAX_REQUESTS_PER_MINUTE /\ waitTime(M, t) > 0
         THEN [M EXCEPT !.worker = [pc |-> "rateWait", wake |-> t + waitTime(M, t),
                                    entry |-> NoQEntry]]
         ELSE shiftAndCall(M, t)

\* processQueue without the isProcessingQueue test
processQueue_NoGuard(M, t) ==
    IF M.q = <<>> THEN M
    ELSE whileLoop([M EXCEPT !.proc = TRUE], t)

processQueue(M, t) ==
    IF M.proc \/ M.q = <<>> THEN M
    ELSE whileLoop([M EXCEPT !.proc = TRUE], t)

\* ---- queueApiRequest and the handler ------------------------------------
\* queueApiRequest testing the queue size with > instead of >=
queueApiRequest_OffByOne(M, r, timeout, t) ==
    LET symbol == M.req[r].symbol
    IN  IF M.active[symbol] # 0
        THEN [M EXCEPT !.req[r].pc = "attached", !.req[r].role = "attached",
                       !.req[r].handle = M.active[symbol]]
        ELSE IF Len(M.q) > MAX_QUEUE_SIZE
        THEN Fallback([M EXCEPT !.req[r].role = "rejected"], r, "queueFull", t)
        ELSE processQueue(
                [M EXCEPT !.req[r].pc = "queued", !.req[r].role = "owner",
                          !.req[r].handle = r,
                          !.req[r].timeoutAt = t + timeout,
                          !.active[symbol] = r,
                          !.q = Append(@, [symbol |-> symbol, owner |-> r])], t)

\* queueApiRequest without the activeRequests.has(symbol) test
queueApiRequest_NoCoalescing(M, r, timeout, t) ==
    LET symbol == M.req[r].symbol
    IN  IF Len(M.q) >= MAX_QUEUE_SIZE + 1
        THEN Fallback([M EXCEPT !.req[r].role = "rejected"], r, "queueFull", t)
        ELSE processQueue(
                [M EXCEPT !.req[r].pc = "queued", !.req[r].role = "owner",
                          !.req[r].handle = r,
                          !.req[r].timeoutAt = t + timeout,
                          !.active[symbol] = r,
                          !.q = Append(@, [symbol |-> symbol, owner |-> r])], t)

\* queueApiRequest(symbol, timeout) as called by request r.  The executor's
\* `return activeRequests.get(symbol)` settles nothing and arms no timer.
queueApiRequest(M, r, timeout, t) ==
    LET symbol == M.req[r].symbol
    IN  IF M.active[symbol] # 0
        THEN [M EXCEPT !.req[r].pc = "attached", !.req[r].role = "attached",
                       !.req[r].handle = M.active[symbol]]
        ELSE IF Len(M.q) >= MAX_QUEUE_SIZE
        THEN Fallback([M EXCEPT !.req[r].role = "rejected"], r, "queueFull", t)
        ELSE processQueue(
                [M EXCEPT !.req[r].pc = "queued", !.req[r].role = "owner",
                          !.req[r].handle = r,
                          !.req[r].timeoutAt = t + timeout,
                          !.active[symbol] = r,
                          !.q = Append(@, [symbol |-> symbol, owner |-> r])], t)

\* app.get('/api/stock/:symbol') up to its first await
handler(M, r, symbol, t) ==
    LET cached == M.cache[symbol]
        M1 == [M EXCEPT !.req[r] = [NoRequest EXCEPT !.symbol = symbol, !.pc = "start",
                                                     !.cached = cached, !.startedAt = t]]
    IN  IF IsFresh(cached, t)
        THEN Respond([M1 EXCEPT !.req[r].role = "fresh"], r, 200, "fresh", "none", cached.data)
        ELSE queueApiRequest(M1, r, CALLER_TIMEOUT, t)

\* ---- state machine ------------------------------------------------------
Cur ==
    [cache |-> cache, q |-> requestQueue, active |-> activeRequests,
     proc |-> isProcessingQueue, count |-> requestCount, last |-> lastResetTime,
     worker |-> worker, req |-> req, calls |-> calls, lastKind |-> lastKind]

Install(M) ==
    /\ cache' = M.cache
    /\ requestQueue' = M.q
    /\ activeRequests' = M.active
    /\ isProcessingQueue' = M.proc
    /\ requestCount' = M.count
    /\ lastResetTime' = M.last
    /\ worker' = M.worker
    /\ req' = M.req
    /\ calls' = M.calls
    /\ lastKind' = M.lastKind

Init ==
    /\ now = 0
    /\ apiKey \in BOOLEAN
    /\ maxQueueSize \in QueueSizes
    /\ cache = [s \in Symbols |-> NoEntry]
    /\ requestQueue = <<>>
    /\ activeRequests = [s \in Symbols |-> 0]
    /\ isProcessingQueue = FALSE
    /\ requestCount = 0
    /\ lastResetTime = 0
    /\ intervalDue = WINDOW_MS
    /\ worker = IdleWorker
    /\ req = [r \in RequestIds |-> NoRequest]
    /\ calls = <<>>
    /\ lastKind = [s \in Symbols |-> "none"]

\* the next unused request id
NextId == CHOOSE r \in RequestIds : req[r].pc = "none" /\ \A k \in 1..(r-1) : req[k].pc # "none"

\* a GET /api/stock/:symbol arrives
Request(symbol) ==
    /\ \E r \in RequestIds : req[r].pc = "none"
    /\ Install(handler(Cur, NextId, symbol, now))
    /\ UNCHANGED <<now, apiKey, maxQueueSize, intervalDue>>

\* a caller timeout that also withdraws the handle and its queue entry
CallerTimeout_Cancels(r) ==
    /\ req[r].pc = "queued"
    /\ now >= req[r].timeoutAt
    /\ Install(Fallback([Cur EXCEPT !.active[req[r].symbol] = 0,
                                    !.q = SelectSeq(@, LAMBDA e : e.owner # r)],
                        r, "callerTimeout", now))
    /\ UNCHANGED <<now, apiKey, maxQueueSize, intervalDue>>

\* the setTimeout of queueApiRequest fires: reject(new Error('Request timeout'))
CallerTimeout(r) ==
    /\ req[r].pc = "queued"
    /\ now >= req[r].timeoutAt
    /\ Install(Fallback(Cur, r, "callerTimeout", now))
    /\ UNCHANGED <<now, apiKey, maxQueueSize, intervalDue>>

\* lines 68-74: axios.get resolved with data.c = c
afterResponse(M, c, t) ==
    LET M1 == wrappedResolve([M EXCEPT !.count = @ + 1,
                                       !.calls[Len(M.calls)].outcome =
                                           IF c # 0 THEN "ok" ELSE "zero"],
                             M.worker.entry, c, t)
    IN  IF M1.q # <<>>
        THEN [M1 EXCEPT !.worker = [pc |-> "spacing", wake |-> t + REQUEST_INTERVAL,
                                    entry |-> NoQEntry]]
        ELSE whileLoop(M1, t)

\* lines 75-78: axios.get threw
afterError(M, cause, t) ==
    whileLoop(wrappedReject([M EXCEPT !.calls[Len(M.calls)].outcome = cause],
                            M.worker.entry, cause, t), t)

AxiosSuccess(c) ==
    /\ worker.pc = "axios"
    /\ Install(afterResponse(Cur, c, now))
    /\ UNCHANGED <<now, apiKey, maxQueueSize, intervalDue>>

AxiosError ==
    /\ worker.pc = "axios"
    /\ Install(afterError(Cur, "upstreamError", now))
    /\ UNCHANGED <<now, apiKey, maxQueueSize, intervalDue>>

AxiosTimeout ==
    /\ worker.pc = "axios"
    /\ now >= worker.wake + AXIOS_TIMEOUT
    /\ Install(afterError(Cur, "upstreamTimeout", now))
    /\ UNCHANGED <<now, apiKey, maxQueueSize, intervalDue>>

\* lines 49-55: the rate-limit wait is over
afterRateWait(M, t) ==
    shiftAndCall([M EXCEPT !.count = 0, !.last = t], t)

RateWaitDone ==
    /\ worker.pc = "rateWait"
    /\ now >= worker.wake
    /\ Install(afterRateWait(Cur, now))
    /\ UNCHANGED <<now, apiKey, maxQueueSize, intervalDue>>

\* line 73: the inter-request wait is over
SpacingDone ==
    /\ worker.pc = "spacing"
    /\ now >= worker.wake
    /\ Install(whileLoop(Cur, now))
    /\ UNCHANGED <<now, apiKey, maxQueueSize, intervalDue>>

\* lines 32-35
IntervalReset ==
    /\ now >= intervalDue
    /\ requestCount' = 0
    /\ lastResetTime' = now
    /\ intervalDue' = now + WINDOW_MS
    /\ UNCHANGED <<now, apiKey, maxQueueSize, cache, requestQueue, activeRequests,
                   isProcessingQueue, worker, req, calls, lastKind>>

\* due times of the armed timers
PendingDue ==
    {intervalDue}
    \cup {req[r].timeoutAt : r \in {k \in RequestIds : req[k].pc = "queued"}}
    \cup (IF worker.pc \in {"rateWait", "spacing"} THEN {worker.wake} ELSE {})
    \cup (IF worker.pc = "axios" THEN {worker.wake + AXIOS_TIMEOUT} ELSE {})

Tick ==
    /\ now < MaxTime
    /\ \A d \in PendingDue : now < d + MaxLate
    /\ now' = now + 1
    /\ UNCHANGED <<apiKey, maxQueueSize, cache, requestQueue, activeRequests, isProcessingQueue,
                   requestCount, lastResetTime, intervalDue, worker, req, calls, lastKind>>

Next ==
    \/ \E s \in Symbols : Request(s)
    \/ \E r \in RequestIds : CallerTimeout(r)
    \/ \E c \in UpstreamPrices : AxiosSuccess(c)
    \/ AxiosError
    \/ AxiosTimeout
    \/ RateWaitDone
    \/ SpacingDone
    \/ IntervalReset
    \/ Tick

Spec == Init /\ [][Next]_vars

TypeOK ==
    /\ now \in 0..MaxTime
    /\ requestCount \in Nat
    /\ Len(requestQueue) \in 0..MaxRequests
    /\ worker.pc \in {"idle", "rateWait", "axios", "spacing"}
    /\ \A r \in RequestIds : req[r].pc \in {"none", "queued", "attached", "done"}

\* ---- helpers of the properties ------------------------------------------
QueueIndices(s) == {i \in DOMAIN requestQueue : requestQueue[i].symbol = s}
Executing(s) == worker.pc = "axios" /\ worker.entry.symbol = s
PendingOrExecuting(s) == Cardinality(QueueIndices(s)) + (IF Executing(s) THEN 1 ELSE 0)
CallsOwnedBy(h) == {i \in DOMAIN calls : calls[i].owner = h}
CallsFor(s) == {i \in DOMAIN calls : calls[i].symbol = s}
InQueue(h) == \E i \in DOMAIN requestQueue : requestQueue[i].owner = h
\* the handle created by request h has been settled by the worker
Settled(h) == req[h].role = "owner" /\ activeRequests[req[h].symbol] # h
Waiting(r) == req[r].pc \in {"queued", "attached"}

\* C1: coalescing.  For every symbol at most one fetch is pending in
\* requestQueue or being executed by the worker; every call belongs to the
\* request that created the handle; a handle causes exactly one upstream
\* call once the worker has taken it from the queue (none when the worker
\* rejects it for want of an API key), and the requests that attached to the
\* handle cause no call of their own.
C1_Coalescing ==
    /\ \A s \in Symbols : PendingOrExecuting(s) <= 1
    /\ \A i \in DOMAIN calls :
          /\ req[calls[i].owner].role = "owner"
          /\ req[calls[i].owner].symbol = calls[i].symbol
    /\ \A h \in RequestIds :
          /\ req[h].role = "owner" =>
                Cardinality(CallsOwnedBy(h)) = (IF apiKey /\ ~InQueue(h) THEN 1 ELSE 0)
          /\ req[h].role # "owner" => CallsOwnedBy(h) = {}

\* three requests for one symbol arrived before the fetch settled; it has
\* settled and exactly one upstream call was made
C1_Witness ==
    \E s \in Symbols :
        /\ \A r \in RequestIds : req[r].symbol = s
        /\ req[1].role = "owner" /\ Settled(1)
        /\ req[2].role = "attached" /\ req[2].handle = 1
        /\ req[3].role = "attached" /\ req[3].handle = 1
        /\ Cardinality(CallsFor(s)) = 1

\* C2: when the fetch of a handle has settled, every caller that attached
\* to the handle has been released with the outcome of the handle's creator.
C2_AttachedReleased ==
    \A r \in RequestIds :
        (req[r].role = "attached" /\ Settled(req[r].handle)) =>
            /\ req[r].pc = "done"
            /\ req[r].body = req[req[r].handle].body

\* C3: every window of WINDOW_MS time units holds at most
\* MAX_REQUESTS_PER_MINUTE starts of upstream calls.
C3_RateBound ==
    \A i \in DOMAIN calls :
        Cardinality({j \in DOMAIN calls :
                        calls[i].at <= calls[j].at /\ calls[j].at < calls[i].at + WINDOW_MS})
            <= MAX_REQUESTS_PER_MINUTE

\* C4: no caller waits unboundedly: a caller still waiting in
\* queueApiRequest has not waited longer than its own timeout (plus the
\* lateness of the timer).
C4_BoundedWait ==
    \A r \in RequestIds :
        Waiting(r) => now - req[r].startedAt <= CALLER_TIMEOUT + MaxLate

\* C5: requestCount never exceeds MAX_REQUESTS_PER_MINUTE.
C5_CountBound == requestCount <= MAX_REQUESTS_PER_MINUTE

\* request r arrives in this step
Arrives(r) == req[r].pc = "none" /\ req'[r].pc # "none"
\* request r is answered in this step
Answered(r) == req[r].pc # "done" /\ req'[r].pc = "done"
\* age classes of the entry of symbol s, from the thresholds of the source
FreshEntry(s) == cache[s].present /\ now - cache[s].timestamp < CACHE_DURATION
StaleEntry(s) ==
    /\ cache[s].present
    /\ now - cache[s].timestamp >= CACHE_DURATION
    /\ now - cache[s].timestamp < STALE_CACHE_DURATION
FailureCauses == {"upstreamError", "upstreamTimeout", "queueFull", "callerTimeout"}
\* the response body carries a degraded marker
MarkedDegraded(body) == "degraded" \in DOMAIN body /\ body.degraded = TRUE

\* a call of queueApiRequest by request r in this step found the queue full
\* and was rejected on the spot, leaving queue and registry alone
RejectedQueueFull(r) ==
    /\ req'[r].pc = "done"
    /\ req'[r].role = "rejected"
    /\ req'[r].cause = "queueFull"
    /\ UNCHANGED <<requestQueue, activeRequests, calls, worker>>

\* C6 as stated: requestQueue never holds more than MAX_QUEUE_SIZE entries,
\* and a queueApiRequest call made while it holds MAX_QUEUE_SIZE entries
\* fails at once with 'Queue is full', for any symbol, without changing
\* requestQueue or activeRequests.
C6_QueueFullAnySymbol ==
    [][ /\ Len(requestQueue') <= MAX_QUEUE_SIZE
        /\ \A r \in RequestIds :
              (Arrives(r) /\ req'[r].role # "fresh" /\ Len(requestQueue) >= MAX_QUEUE_SIZE)
                  => RejectedQueueFull(r) ]_vars

\* C6 amended: the same, for a symbol that has no handle in activeRequests
\* when the call is made.
C6_QueueFullNoHandle ==
    [][ /\ Len(requestQueue') <= MAX_QUEUE_SIZE
        /\ \A r \in RequestIds :
              (/\ Arrives(r) /\ req'[r].role # "fresh"
               /\ Len(requestQueue) >= MAX_QUEUE_SIZE
               /\ activeRequests[req'[r].symbol] = 0)
                  => RejectedQueueFull(r) ]_vars

\* a request was rejected for a full queue while another entry stayed queued
C6_Witness ==
    \E r \in RequestIds :
        /\ req[r].pc = "done" /\ req[r].role = "rejected" /\ req[r].cause = "queueFull"
        /\ Len(requestQueue) = MAX_QUEUE_SIZE
        /\ activeRequests[req[r].symbol] = 0

\* C7: every response is a 200 carrying a quote of the requested symbol;
\* after an upstream error, an upstream timeout, a queue-full rejection or a
\* caller timeout it is a cached quote or the placeholder, never an error.
C7_NoErrorResponse ==
    \A r \in RequestIds :
        req[r].pc = "done" =>
            /\ req[r].status = 200
            /\ req[r].body.symbol = req[r].symbol
            /\ req[r].cause \in FailureCauses =>
                  \/ req[r].body = [symbol |-> req[r].symbol, price |-> "N/A", mock |-> TRUE]
                  \/ /\ ~req[r].body.mock
                     /\ req[r].body.price \in {"1.00", "2.00"}

\* three requests were answered after a queue-full rejection, a caller
\* timeout and an upstream failure
C7_Witness ==
    /\ \A r \in RequestIds : req[r].pc = "done" /\ req[r].cause \in FailureCauses
    /\ \E r \in RequestIds : req[r].cause = "queueFull"
    /\ \E r \in RequestIds : req[r].cause = "callerTimeout"
    /\ \E r \in RequestIds : req[r].cause \in {"upstreamError", "upstreamTimeout"}

\* C8: a request whose live fetch fails while a stale entry of its symbol
\* exists is answered with that entry, marked as degraded.
C8_StaleMarkedDegraded ==
    [][ \A r \in RequestIds :
            (Answered(r) /\ req'[r].cause \in FailureCauses /\ StaleEntry(req'[r].symbol))
                => /\ req'[r].body = cache[req'[r].symbol].data
                   /\ MarkedDegraded(req'[r].body) ]_vars

\* C9: a request for a symbol whose entry is younger than CACHE_DURATION is
\* answered with exactly the cached record; no upstream call starts and
\* requestQueue, activeRequests, requestCount and the cache stay as they are.
C9_FreshHit ==
    [][ \A r \in RequestIds : \A s \in Symbols :
            (Arrives(r) /\ req'[r].symbol = s /\ FreshEntry(s))
                => /\ req'[r].pc = "done"
                   /\ req'[r].status = 200
                   /\ req'[r].body = cache[s].data
                   /\ UNCHANGED <<requestQueue, activeRequests, requestCount, cache,
                                  calls, worker, isProcessingQueue>> ]_vars

\* a request was answered from a fresh entry although the worker was busy
C9_Witness ==
    \E r \in RequestIds :
        /\ req[r].pc = "done" /\ req[r].kind = "fresh"
        /\ req[r].body = cache[req[r].symbol].data
        /\ worker.pc = "axios"

\* C10: the cache only ever holds quotes built from a successful upstream
\* response with a nonzero price, never the placeholder; and a request for
\* a symbol whose latest response was the placeholder is not answered from
\* the cache but enters queueApiRequest.
C10_PlaceholderNotCached ==
    [][ /\ \A s \in Symbols :
              cache'[s].present =>
                  /\ ~cache'[s].data.mock
                  /\ cache'[s].data.symbol = s
                  /\ cache'[s].data.price \in {"1.00", "2.00"}
        /\ \A r \in RequestIds :
              (Arrives(r) /\ lastKind[req'[r].symbol] = "mock")
                  => /\ req'[r].role \in {"owner", "attached", "rejected"}
                     /\ req'[r].kind # "fresh" ]_vars

\* a symbol got the placeholder, and the next request for it fetched live
C10_Witness ==
    \E s \in Symbols :
        /\ req[1].symbol = s /\ req[1].pc = "done" /\ req[1].body.mock
        /\ req[2].symbol = s /\ req[2].role = "owner" /\ req[2].kind = "live"
        /\ cache[s].present

\* ---- the worker's spacing, counting and resets ---------------------------
\* the upstream call in flight ends in this step
CallSettles == worker.pc = "axios" /\ worker' # worker
\* the call in flight (the last of calls) ends in this step with outcome o
CallEndsWith(o) ==
    /\ CallSettles
    /\ calls[Len(calls)].outcome = "pending"
    /\ calls'[Len(calls)].outcome = o
\* requestCount and lastResetTime are reset in this step, by the interval
\* timer or by the worker after its rate-limit wait
ResetStep ==
    \/ intervalDue' # intervalDue
    \/ worker.pc = "rateWait" /\ worker' # worker

\* C11: between the starts of two consecutive upstream calls at least
\* REQUEST_INTERVAL elapses.
C11_Spacing ==
    \A i \in DOMAIN calls :
        i > 1 => calls[i].at - calls[i-1].at >= REQUEST_INTERVAL

\* C12: every upstream call, however it ends, adds exactly one to
\* requestCount when it ends.
C12_CountsEveryCall ==
    [][ CallSettles => requestCount' = requestCount + 1 ]_vars

\* C13: requestCount is reset only when the window has reached its length:
\* no reset happens while now - lastResetTime < WINDOW_MS.
C13_ResetOnlyWhenElapsed ==
    [][ ResetStep => now - lastResetTime >= WINDOW_MS ]_vars

\* C14: an upstream call that returns a nonzero price (within the timeout
\* of the call) replaces the cache entry of its symbol by the new quote,
\* stamped with the current time.
C14_WriteThrough ==
    [][ (CallEndsWith("ok") /\ now - worker.wake <= AXIOS_TIMEOUT) =>
            cache'[worker.entry.symbol] =
                [present |-> TRUE,
                 data |-> [symbol |-> worker.entry.symbol, price |-> "1.00", mock |-> FALSE],
                 timestamp |-> now] ]_vars

\* ---- handles, caller timeouts, expired entries ---------------------------
\* the fetch the handle of symbol s stands for: its queue entry or the call
\* the worker is executing
HandleHasFetch(s) ==
    \/ \E i \in QueueIndices(s) : requestQueue[i].owner = activeRequests[s]
    \/ Executing(s) /\ worker.entry.owner = activeRequests[s]

HandleOK ==
    \A s \in Symbols :
        /\ PendingOrExecuting(s) <= 1
        /\ activeRequests[s] # 0 <=> PendingOrExecuting(s) = 1
        /\ activeRequests[s] # 0 => HandleHasFetch(s)

\* C15: a symbol is a key of activeRequests exactly while a fetch for it is
\* in requestQueue or being executed; the handle appears when a request
\* enqueues the fetch and disappears only when the worker settles that
\* fetch, never to be replaced by another handle meanwhile.
C15_HandleLifecycle ==
    [][ /\ HandleOK'
        /\ \A s \in Symbols :
              /\ (activeRequests[s] = 0 /\ activeRequests'[s] # 0) =>
                    /\ Arrives(activeRequests'[s])
                    /\ req'[activeRequests'[s]].symbol = s
                    /\ req'[activeRequests'[s]].role = "owner"
              /\ (activeRequests[s] # 0 /\ activeRequests'[s] # activeRequests[s]) =>
                    /\ activeRequests'[s] = 0
                    /\ CallSettles
                    /\ worker.entry = [symbol |-> s, owner |-> activeRequests[s]] ]_vars

\* the handle of the first request was settled after a failure and the
\* second request for the symbol owns a new one
C15_Witness ==
    /\ req[1].role = "owner" /\ Settled(1) /\ req[1].cause \in FailureCauses
    /\ req[2].symbol = req[1].symbol
    /\ activeRequests[req[2].symbol] = 2
    /\ HandleHasFetch(req[2].symbol)

\* C16: the step in which a caller's own timeout fires releases that caller
\* alone; activeRequests, requestQueue, requestCount, the worker and the
\* cache stay as they are, the handle stays registered with its fetch, and
\* the fetch of a timed-out caller is still executed by the worker.
C16_CallerTimeoutLocal ==
    [][ /\ \A r \in RequestIds :
              (req[r].pc = "queued" /\ req'[r].pc = "done" /\ req'[r].cause = "callerTimeout")
                  => /\ UNCHANGED <<activeRequests, requestQueue, requestCount, lastResetTime,
                                    isProcessingQueue, worker, calls, cache>>
                     /\ \A k \in RequestIds \ {r} : req'[k] = req[k]
                     /\ activeRequests[req[r].symbol] = r
                     /\ HandleHasFetch(req[r].symbol)
        /\ \A r \in RequestIds :
              req'[r].cause = "callerTimeout" =>
                  \/ \E i \in DOMAIN requestQueue' : requestQueue'[i].owner = r
                  \/ \E i \in DOMAIN calls' : calls'[i].owner = r ]_vars

\* a caller timed out and its fetch was executed all the same
C16_Witness ==
    \E r \in RequestIds :
        /\ req[r].pc = "done" /\ req[r].cause = "callerTimeout"
        /\ Settled(r)
        /\ \E i \in DOMAIN calls : calls[i].owner = r /\ calls[i].outcome = "ok"

\* C17: a request whose live fetch failed is answered with the cached record
\* if an entry of age below STALE_CACHE_DURATION exists at that time, and
\* with the placeholder otherwise; the cache is left as it is, so an expired
\* entry stays without being served.
C17_ExpiredNotServed ==
    [][ \A r \in RequestIds :
            (Answered(r) /\ req'[r].cause # "none") =>
                LET s == req'[r].symbol
                    usable == cache[s].present
                              /\ now - cache[s].timestamp < STALE_CACHE_DURATION
                IN  /\ usable => req'[r].body = cache[s].data /\ ~req'[r].body.mock
                    /\ ~usable => req'[r].body = [symbol |-> s, price |-> "N/A", mock |-> TRUE]
                    /\ cache'[s] = cache[s] ]_vars

\* a failed request got the placeholder although an expired entry is cached
C17_Witness ==
    \E r \in RequestIds :
        /\ req[r].pc = "done" /\ req[r].cause \in FailureCauses /\ req[r].body.mock
        /\ cache[req[r].symbol].present
        /\ now - cache[req[r].symbol].timestamp >= STALE_CACHE_DURATION

\* ---- one worker, FIFO ----------------------------------------------------
PendingCalls == {i \in DOMAIN calls : calls[i].outcome = "pending"}

OneWorker ==
    /\ Cardinality(PendingCalls) <= 1
    /\ PendingCalls # {} <=> worker.pc = "axios"
    /\ PendingCalls # {} => PendingCalls = {Len(calls)}
    /\ isProcessingQueue <=> worker.pc # "idle"

\* C19: at most one upstream call is in flight and it is the one the single
\* worker loop is suspended on; a queueApiRequest (hence processQueue) made
\* while the loop is running only appends to requestQueue: it starts no
\* call and leaves the worker, the counter and isProcessingQueue alone.
C19_SingleWorker ==
    [][ /\ OneWorker'
        /\ \A r \in RequestIds :
              (Arrives(r) /\ isProcessingQueue) =>
                  /\ UNCHANGED <<worker, calls, requestCount, lastResetTime, isProcessingQueue>>
                  /\ \/ requestQueue' = requestQueue
                     \/ requestQueue' = Append(requestQueue,
                                               [symbol |-> req'[r].symbol, owner |-> r]) ]_vars

\* the second request was enqueued while the call of the first is in flight
C19_Witness ==
    /\ worker.pc = "axios" /\ worker.entry.owner = 1
    /\ InQueue(2)
    /\ PendingCalls = {1}

\* C20: upstream calls start in the order in which their entries were
\* appended to requestQueue.  Requests are numbered in order of arrival and
\* an entry is appended in the step its request arrives, so the owners of
\* the calls, followed by the owners of the queued entries, are increasing.
C20_Fifo ==
    /\ \A i, j \in DOMAIN calls : i < j => calls[i].owner < calls[j].owner
    /\ \A i, j \in DOMAIN requestQueue :
          i < j => requestQueue[i].owner < requestQueue[j].owner
    /\ \A i \in DOMAIN calls : \A j \in DOMAIN requestQueue :
          calls[i].owner < requestQueue[j].owner

\* requests 2 and 3 were both queued (3 arrived before the call of 2
\* started) and were dispatched in that order
C20_Witness ==
    /\ Len(calls) = 3
    /\ calls[2].owner = 2 /\ calls[3].owner = 3
    /\ calls[2].symbol # calls[3].symbol
    /\ req[3].pc = "queued"
    /\ req[3].startedAt < calls[2].at

\* ---- progress of the worker ----------------------------------------------
\* In the specification for progress the last instant stands for MaxTime or
\* any later time: there the worker's timers fire although the clock of the
\* model cannot reach their due time.
LateRateWaitDone ==
    /\ worker.pc = "rateWait"
    /\ now = MaxTime /\ now < worker.wake
    /\ Install(afterRateWait(Cur, now))
    /\ UNCHANGED <<now, apiKey, maxQueueSize, intervalDue>>

LateSpacingDone ==
    /\ worker.pc = "spacing"
    /\ now = MaxTime /\ now < worker.wake
    /\ Install(whileLoop(Cur, now))
    /\ UNCHANGED <<now, apiKey, maxQueueSize, intervalDue>>

LateAxiosTimeout ==
    /\ worker.pc = "axios"
    /\ now = MaxTime /\ now < worker.wake + AXIOS_TIMEOUT
    /\ Install(afterError(Cur, "upstreamTimeout", now))
    /\ UNCHANGED <<now, apiKey, maxQueueSize, intervalDue>>

\* the clock of the specification for progress: every timer fires at its
\* due time
LiveTick ==
    /\ Tick
    /\ \A d \in PendingDue : now < d

LiveInit ==
    /\ Init
    /\ apiKey
    /\ maxQueueSize = 2

LiveNext ==
    \/ \E s \in Symbols : Request(s)
    \/ \E r \in RequestIds : CallerTimeout(r)
    \/ \E c \in UpstreamPrices : AxiosSuccess(c)
    \/ AxiosError
    \/ AxiosTimeout
    \/ RateWaitDone
    \/ SpacingDone
    \/ IntervalReset
    \/ LiveTick
    \/ LateRateWaitDone
    \/ LateSpacingDone
    \/ LateAxiosTimeout

\* timers fire, and every upstream call returns or times out
LiveSpec ==
    /\ LiveInit
    /\ [][LiveNext]_vars
    /\ WF_vars(LiveTick)
    /\ WF_vars(IntervalReset)
    /\ \A r \in RequestIds : WF_vars(CallerTimeout(r))
    /\ WF_vars(RateWaitDone \/ LateRateWaitDone)
    /\ WF_vars(SpacingDone \/ LateSpacingDone)
    /\ WF_vars(AxiosTimeout \/ LateAxiosTimeout)

QueueServed ==
    /\ requestQueue # <<>> => isProcessingQueue
    /\ isProcessingQueue <=> worker.pc \in {"rateWait", "axios", "spacing"}
    /\ worker.pc = "idle" => requestQueue = <<>>

\* C18: the queue is never left unattended (a non-empty queue has the worker
\* loop suspended on a timer or on an upstream call, and isProcessingQueue
\* is true exactly while the loop runs), and every entry appended to
\* requestQueue is eventually shifted and its handle settled.
C18_WorkerProgress ==
    /\ []QueueServed
    /\ \A h \in RequestIds : InQueue(h) ~> Settled(h)

\* the worker went idle on an empty queue and was restarted by the next
\* enqueue, whose entry waits behind the rate limit
C18_Witness ==
    /\ Len(calls) = MAX_REQUESTS_PER_MINUTE
    /\ \A i \in DOMAIN calls : calls[i].outcome # "pending"
    /\ worker.pc = "rateWait"
    /\ InQueue(3)

\* ---- a response without a price ------------------------------------------
\* C21: when the upstream call returns with a missing or zero price, nothing
\* is written to the cache, requestCount is incremented, and the request that
\* owns the call, if it still waits, is answered in that step with status 200
\* by the entry it read on arrival when that entry is younger than
\* STALE_CACHE_DURATION and by the placeholder otherwise; an owner that has
\* already timed out keeps the 200 response it was given.
C21_ZeroPriceFallsThrough ==
    [][ CallEndsWith("zero") =>
          LET r == worker.entry.owner
              seen == req[r].cached
          IN  /\ cache' = cache
              /\ requestCount' = requestCount + 1
              /\ IF req[r].pc = "queued"
                 THEN /\ req'[r].pc = "done"
                      /\ req'[r].status = 200
                      /\ req'[r].body =
                            IF seen.present /\ now - seen.timestamp < STALE_CACHE_DURATION
                            THEN seen.data
                            ELSE [symbol |-> worker.entry.symbol, price |-> "N/A",
                                  mock |-> TRUE]
                 ELSE /\ req'[r] = req[r]
                      /\ req[r].pc = "done"
                      /\ req[r].status = 200 ]_vars

\* one request was answered from a stale entry and another with the
\* placeholder, each after its upstream call returned without a price
C21_Witness ==
    /\ \E r \in RequestIds :
          req[r].pc = "done" /\ req[r].cause = "zeroPrice" /\ req[r].kind = "stale"
    /\ \E r \in RequestIds :
          req[r].pc = "done" /\ req[r].cause = "zeroPrice" /\ req[r].kind = "mock"
    /\ Cardinality({i \in DOMAIN calls : calls[i].outcome = "zero"}) = 2

====
